---------------------------- MODULE Spec2Model ----------------------------
(***************************************************************************)
(* A model of generate-llvm-docset.py: the pipeline driver                 *)
(* (DocSetGenerator and the __main__ block), the progress tracker that     *)
(* reads docsetutil's output, and the ProgressBar renderer.                *)
(*                                                                         *)
(* Three specifications share the module:                                  *)
(*   Spec         successive invocations of the script on one directory    *)
(*   SpecTracker  one tracked docsetutil run (reader loop + tracker + bar) *)
(*   SpecBar      the ProgressBar alone, over a wide range of totals       *)
(***************************************************************************)
EXTENDS Integers, Sequences, FiniteSets, TLC

VARIABLES
    \* ---- pipeline (Spec) ----
    pc,        \* position of the current invocation inside DocSetGenerator.run
    args,      \* command line flags and which executables can be located
    fs,        \* the working directory: path -> content
    stale,     \* paths whose content was written by an earlier invocation
    patches,   \* number of DashDocSetFallbackURL entries in the docset's Info.plist
    status,    \* process exit status of the current invocation, Running before it exits
    err,       \* the exception that ended the current invocation, "none" otherwise
    toolrc,    \* exit code seen from each external tool in this invocation, NotRun before
    runs,      \* invocations started so far
    cleaned,   \* some invocation so far was given --clean
    \* ---- progress tracker and bar (SpecTracker, SpecBar) ----
    bar,       \* ProgressBar fields: index, max
    rendered,  \* the last line written by ProgressBar.update
    newlines,  \* line terminators written to the bar's file
    exc,       \* exception raised out of the tracker, "none" otherwise
    output,    \* lines of docsetutil output handed to the tracker so far
    last,      \* the last chunk handed to the tracker
    tpc        \* "reading" inside the with block, "finished" after __exit__

pipeVars == <<pc, args, fs, stale, patches, status, err, toolrc, runs, cleaned>>
trackVars == <<bar, rendered, newlines, exc, output, last, tpc>>
vars == <<pc, args, fs, stale, patches, status, err, toolrc, runs, cleaned,
          bar, rendered, newlines, exc, output, last, tpc>>

(***************************************************************************)
(* Bounds of the model                                                     *)
(***************************************************************************)
MaxRuns == 3

(***************************************************************************)
(* The working directory                                                   *)
(***************************************************************************)
\* llvm-X.src.tar.xz, llvm-X.src, doxygen.cfg, doxygen/html, and the parts of
\* LLVM.docset: the directory itself (with Contents/Resources), the copied
\* Nodes.xml and Tokens.xml, Contents/Info.plist, Resources/Documents, the
\* docSet* index files written by docsetutil, and icon.png.
DocsetPaths == {"docset", "nodes_xml", "info_plist", "documents", "index", "icon"}

Paths == {"tarball", "src_dir", "doxygen_cfg", "html"} \cup DocsetPaths

\* "plain" is an HTML tree generated without GENERATE_DOCSET: it holds no
\* Nodes.xml, Tokens.xml or Info.plist.
Contents == {"absent", "partial", "complete", "plain"}

Exists(p) == fs[p] # "absent"

EmptyDir == [p \in Paths |-> "absent"]

\* Path.unlink / shutil.rmtree of one artifact
Remove(f, ps) == [p \in Paths |-> IF p \in ps THEN "absent" ELSE f[p]]

Running == -1

NotRun == -1

\* Exit codes of a failing external tool
FailCodes == {1, 2}

\* An uncaught KeyboardInterrupt ends the interpreter with status 1 or, since
\* Python 3.8, by re-raising SIGINT (reported as 130).
InterruptStatus == {1, 130}

Args == [clean : BOOLEAN, verbose : BOOLEAN, skip : BOOLEAN,
         doxygen : BOOLEAN, dot : BOOLEAN, docsetutil : BOOLEAN]

NoArgs == [clean |-> FALSE, verbose |-> FALSE, skip |-> FALSE,
           doxygen |-> FALSE, dot |-> FALSE, docsetutil |-> FALSE]

NoTools == [t \in {"doxygen", "docsetutil"} |-> NotRun]

\* The process ends: sys.exit, parser.exit, or an exception nobody catches.
Exit(code, e) ==
    /\ status' = code
    /\ err' = e

Continue(next) ==
    /\ pc' = next
    /\ UNCHANGED <<status, err>>
    /\ UNCHANGED <<cleaned, trackVars>>

(***************************************************************************)
(* __main__ and DocSetGenerator.__init__                                   *)
(***************************************************************************)
Start(a) ==
    /\ status # Running
    /\ runs < MaxRuns
    /\ runs' = runs + 1
    /\ args' = a
    /\ stale' = {p \in Paths : Exists(p)}
    /\ toolrc' = NoTools
    /\ IF ~a.doxygen \/ ~a.dot
       THEN /\ pc' = "startup"
            /\ Exit(1, "ToolNotFoundError")
       ELSE /\ pc' = "fetch"
            /\ status' = Running
            /\ err' = "none"
    /\ cleaned' = (cleaned \/ a.clean)
    /\ UNCHANGED <<fs, patches>>
    /\ UNCHANGED trackVars

(***************************************************************************)
(* download_llvm_tarball                                                   *)
(***************************************************************************)
FetchCheck ==
    /\ status = Running /\ pc = "fetch"
    /\ IF Exists("tarball")
       THEN IF args.clean
            THEN /\ fs' = Remove(fs, {"tarball"})
                 /\ stale' = stale \ {"tarball"}
                 /\ Continue("fetching")
            ELSE /\ UNCHANGED <<fs, stale>>
                 /\ Continue("extract")
       ELSE /\ UNCHANGED <<fs, stale>>
            /\ Continue("fetching")
    /\ UNCHANGED <<args, patches, toolrc, runs>>
    /\ UNCHANGED <<cleaned, trackVars>>

\* urlretrieve has opened the target file and written part of it
FetchWrite ==
    /\ status = Running /\ pc = "fetching"
    /\ fs["tarball"] = "absent"
    /\ fs' = [fs EXCEPT !["tarball"] = "partial"]
    /\ UNCHANGED <<pc, args, stale, patches, status, err, toolrc, runs>>
    /\ UNCHANGED <<cleaned, trackVars>>

FetchDone ==
    /\ status = Running /\ pc = "fetching"
    /\ fs' = [fs EXCEPT !["tarball"] = "complete"]
    /\ Continue("extract")
    /\ UNCHANGED <<args, stale, patches, toolrc, runs>>
    /\ UNCHANGED <<cleaned, trackVars>>

\* URLError, HTTPError, ContentTooShortError: not caught anywhere
FetchError ==
    /\ status = Running /\ pc = "fetching"
    /\ Exit(1, "URLError")
    /\ UNCHANGED <<pc, args, fs, stale, patches, toolrc, runs>>
    /\ UNCHANGED <<cleaned, trackVars>>

\* No except clause around urlretrieve: the interrupt reaches the interpreter
FetchInterrupt ==
    /\ status = Running /\ pc = "fetching"
    /\ \E s \in InterruptStatus : Exit(s, "KeyboardInterrupt")
    /\ UNCHANGED <<pc, args, fs, stale, patches, toolrc, runs>>
    /\ UNCHANGED <<cleaned, trackVars>>

(***************************************************************************)
(* extract_llvm_tarball                                                    *)
(***************************************************************************)
ExtractCheck ==
    /\ status = Running /\ pc = "extract"
    /\ IF Exists("src_dir")
       THEN IF args.clean
            THEN /\ fs' = Remove(fs, {"src_dir"})
                 /\ stale' = stale \ {"src_dir"}
                 /\ Continue("extracting")
            ELSE /\ UNCHANGED <<fs, stale>>
                 /\ Continue("configure")
       ELSE /\ UNCHANGED <<fs, stale>>
            /\ Continue("extracting")
    /\ UNCHANGED <<args, patches, toolrc, runs>>
    /\ UNCHANGED <<cleaned, trackVars>>

ExtractWrite ==
    /\ status = Running /\ pc = "extracting"
    /\ fs["src_dir"] = "absent"
    /\ fs' = [fs EXCEPT !["src_dir"] = "partial"]
    /\ UNCHANGED <<pc, args, stale, patches, status, err, toolrc, runs>>
    /\ UNCHANGED <<cleaned, trackVars>>

ExtractDone ==
    /\ status = Running /\ pc = "extracting"
    /\ fs["tarball"] = "complete"
    /\ fs' = [fs EXCEPT !["src_dir"] = "complete"]
    /\ Continue("configure")
    /\ UNCHANGED <<args, stale, patches, toolrc, runs>>
    /\ UNCHANGED <<cleaned, trackVars>>

\* tarfile.ReadError / EOFError on a truncated archive: not caught
ExtractError ==
    /\ status = Running /\ pc = "extracting"
    /\ fs["tarball"] # "complete"
    /\ Exit(1, "ReadError")
    /\ UNCHANGED <<pc, args, fs, stale, patches, toolrc, runs>>
    /\ UNCHANGED <<cleaned, trackVars>>

ExtractInterrupt ==
    /\ status = Running /\ pc = "extracting"
    /\ fs' = Remove(fs, {"src_dir"})
    /\ Exit(1, "KeyboardInterrupt")
    /\ UNCHANGED <<pc, args, stale, patches, toolrc, runs>>
    /\ UNCHANGED <<cleaned, trackVars>>

(***************************************************************************)
(* configure_doxygen: no existence check, doxygen.cfg is always rewritten  *)
(***************************************************************************)
Configure ==
    /\ status = Running /\ pc = "configure"
    /\ fs' = [fs EXCEPT !["doxygen_cfg"] = "complete"]
    /\ stale' = stale \ {"doxygen_cfg"}
    /\ Continue("html")
    /\ UNCHANGED <<args, patches, toolrc, runs>>
    /\ UNCHANGED <<cleaned, trackVars>>

\* docs/doxygen.cfg.in is missing from a partially extracted tree
ConfigureError ==
    /\ status = Running /\ pc = "configure"
    /\ fs["src_dir"] = "partial"
    /\ Exit(1, "FileNotFoundError")
    /\ UNCHANGED <<pc, args, fs, stale, patches, toolrc, runs>>
    /\ UNCHANGED <<cleaned, trackVars>>

(***************************************************************************)
(* run_doxygen                                                             *)
(***************************************************************************)
\* run(): with --skip-docset-generation the run ends after run_doxygen
Finish ==
    /\ pc' = "done"
    /\ Exit(0, "none")

AfterHtml ==
    IF args.skip THEN Finish ELSE Continue("bundle")

HtmlCheck ==
    /\ status = Running /\ pc = "html"
    /\ IF Exists("html")
       THEN IF args.clean
            THEN /\ fs' = Remove(fs, {"html"})
                 /\ stale' = stale \ {"html"}
                 /\ Continue("doxygen")
            ELSE /\ UNCHANGED <<fs, stale>>
                 /\ AfterHtml
       ELSE /\ UNCHANGED <<fs, stale>>
            /\ Continue("doxygen")
    /\ UNCHANGED <<args, patches, toolrc, runs>>
    /\ UNCHANGED <<cleaned, trackVars>>

DoxygenWrite ==
    /\ status = Running /\ pc = "doxygen"
    /\ fs["html"] = "absent"
    /\ fs' = [fs EXCEPT !["html"] = "partial"]
    /\ UNCHANGED <<pc, args, stale, patches, status, err, toolrc, runs>>
    /\ UNCHANGED <<cleaned, trackVars>>

\* subprocess.check_call raises CalledProcessError on a non-zero exit code
CheckCallRaises(rc) == rc # 0

DoxygenExit(rc) ==
    /\ status = Running /\ pc = "doxygen"
    /\ toolrc' = [toolrc EXCEPT !["doxygen"] = rc]
    /\ IF CheckCallRaises(rc)
       THEN /\ Exit(1, "CalledProcessError")
            /\ UNCHANGED <<pc, fs>>
       ELSE /\ fs' = [fs EXCEPT !["html"] = IF args.skip THEN "plain" ELSE "complete"]
            /\ AfterHtml
    /\ UNCHANGED <<args, stale, patches, runs>>
    /\ UNCHANGED <<cleaned, trackVars>>

DoxygenInterrupt ==
    /\ status = Running /\ pc = "doxygen"
    /\ fs' = Remove(fs, {"html"})
    /\ Exit(1, "KeyboardInterrupt")
    /\ UNCHANGED <<pc, args, stale, patches, toolrc, runs>>
    /\ UNCHANGED <<cleaned, trackVars>>

(***************************************************************************)
(* generate_docset_from_html                                               *)
(***************************************************************************)
\* With --clean an existing docset is announced as deleted and left in place.
BundleCheck ==
    /\ status = Running /\ pc = "bundle"
    /\ IF Exists("docset") /\ ~args.clean
       THEN Continue("icon")
       ELSE Continue("bundling")
    /\ UNCHANGED <<args, fs, stale, patches, toolrc, runs>>
    /\ UNCHANGED <<cleaned, trackVars>>

\* mkdir(parents, exist_ok) and the three shutil.copy calls
BundleCopyFiles ==
    /\ status = Running /\ pc = "bundling"
    /\ fs["html"] \in {"complete", "partial"}
    /\ fs' = [fs EXCEPT !["docset"] = "complete", !["nodes_xml"] = "complete",
                        !["info_plist"] = "complete"]
    /\ stale' = stale \ {"nodes_xml", "info_plist"}
    /\ patches' = 0
    /\ Continue("copytree")
    /\ UNCHANGED <<args, toolrc, runs>>
    /\ UNCHANGED <<cleaned, trackVars>>

\* html/Nodes.xml does not exist: shutil.copy raises after the mkdir
BundleCopyError ==
    /\ status = Running /\ pc = "bundling"
    /\ fs["html"] \in {"plain", "partial"}
    /\ fs' = [fs EXCEPT !["docset"] = "complete"]
    /\ Exit(1, "FileNotFoundError")
    /\ UNCHANGED <<pc, args, stale, patches, toolrc, runs>>
    /\ UNCHANGED <<cleaned, trackVars>>

BundleCopyTree ==
    /\ status = Running /\ pc = "copytree"
    /\ ~Exists("documents")
    /\ fs' = [fs EXCEPT !["documents"] = fs["html"]]
    /\ Continue("index")
    /\ UNCHANGED <<args, stale, patches, toolrc, runs>>
    /\ UNCHANGED <<cleaned, trackVars>>

\* shutil.copytree onto an existing Documents directory
BundleCopyTreeError ==
    /\ status = Running /\ pc = "copytree"
    /\ Exists("documents")
    /\ Exit(1, "FileExistsError")
    /\ UNCHANGED <<pc, args, fs, stale, patches, toolrc, runs>>
    /\ UNCHANGED <<cleaned, trackVars>>

BundleInterrupt ==
    /\ status = Running /\ pc \in {"bundling", "copytree"}
    /\ fs' = Remove(fs, DocsetPaths)
    /\ stale' = stale \ DocsetPaths
    /\ patches' = 0
    /\ Exit(1, "KeyboardInterrupt")
    /\ UNCHANGED <<pc, args, toolrc, runs>>
    /\ UNCHANGED <<cleaned, trackVars>>

(***************************************************************************)
(* __run_docsetutil                                                        *)
(***************************************************************************)
IndexLaunch ==
    /\ status = Running /\ pc = "index"
    /\ args.docsetutil
    /\ Continue("indexing")
    /\ UNCHANGED <<args, fs, stale, patches, toolrc, runs>>
    /\ UNCHANGED <<cleaned, trackVars>>

\* check_call / Popen on a missing executable
IndexLaunchError ==
    /\ status = Running /\ pc = "index"
    /\ ~args.docsetutil
    /\ Exit(1, "FileNotFoundError")
    /\ UNCHANGED <<pc, args, fs, stale, patches, toolrc, runs>>
    /\ UNCHANGED <<cleaned, trackVars>>

IndexWrite ==
    /\ status = Running /\ pc = "indexing"
    /\ fs["index"] = "absent"
    /\ fs' = [fs EXCEPT !["index"] = "partial"]
    /\ UNCHANGED <<pc, args, stale, patches, status, err, toolrc, runs>>
    /\ UNCHANGED <<cleaned, trackVars>>

\* The non-verbose branch tests process.returncode itself
ReturncodeRaisesMut(verbose, rc) == verbose /\ CheckCallRaises(rc)

ReturncodeRaises(verbose, rc) ==
    IF verbose THEN CheckCallRaises(rc) ELSE rc # 0

\* docsetutil exits; on success generate_docset_from_html unlinks the copied
\* Nodes.xml and Tokens.xml and returns
IndexExit(rc) ==
    /\ status = Running /\ pc = "indexing"
    /\ toolrc' = [toolrc EXCEPT !["docsetutil"] = rc]
    /\ IF ReturncodeRaises(args.verbose, rc)
       THEN /\ Exit(1, "CalledProcessError")
            /\ UNCHANGED <<pc, fs>>
       ELSE /\ fs' = [fs EXCEPT !["index"] = "complete", !["nodes_xml"] = "absent"]
            /\ Continue("icon")
    /\ UNCHANGED <<args, stale, patches, runs>>
    /\ UNCHANGED <<cleaned, trackVars>>

\* An exception other than ValueError leaves ProgressTracker.__call__ (see
\* TrackerCall): nobody catches it. It can happen in the loop (returncode
\* still unset) or on the drained remainder (the tool has exited with rc).
IndexTrackerError(rc) ==
    /\ status = Running /\ pc = "indexing"
    /\ ~args.verbose
    /\ toolrc' = [toolrc EXCEPT !["docsetutil"] = rc]
    /\ Exit(1, "TrackerError")
    /\ UNCHANGED <<pc, args, fs, stale, patches, runs>>
    /\ UNCHANGED <<cleaned, trackVars>>

IndexInterrupt ==
    /\ status = Running /\ pc = "indexing"
    /\ fs' = Remove(fs, {"index"})
    /\ Exit(1, "KeyboardInterrupt")
    /\ UNCHANGED <<pc, args, stale, patches, toolrc, runs>>
    /\ UNCHANGED <<cleaned, trackVars>>

(***************************************************************************)
(* add_icon, patch_info_plist                                              *)
(***************************************************************************)
AddIcon ==
    /\ status = Running /\ pc = "icon"
    /\ fs' = [fs EXCEPT !["icon"] = "complete"]
    /\ stale' = stale \ {"icon"}
    /\ Continue("patch")
    /\ UNCHANGED <<args, patches, toolrc, runs>>
    /\ UNCHANGED <<cleaned, trackVars>>

\* Appends one DashDocSetFallbackURL key/value pair and rewrites the file
PatchInfoPlist ==
    /\ status = Running /\ pc = "patch"
    /\ Exists("info_plist")
    /\ patches' = patches + 1
    /\ stale' = stale \ {"info_plist"}
    /\ Finish
    /\ UNCHANGED <<args, fs, toolrc, runs>>
    /\ UNCHANGED <<cleaned, trackVars>>

\* ElementTree.parse on a docset without Contents/Info.plist
PatchError ==
    /\ status = Running /\ pc = "patch"
    /\ ~Exists("info_plist")
    /\ Exit(1, "FileNotFoundError")
    /\ UNCHANGED <<pc, args, fs, stale, patches, toolrc, runs>>
    /\ UNCHANGED <<cleaned, trackVars>>

(***************************************************************************)
(* ProgressBar                                                             *)
(*                                                                         *)
(* The bar computes with doubles; the model computes the same values with  *)
(* exact fractions <<numerator, denominator>>.  32 * x is exact in binary  *)
(* floating point, so int(filled_len) is the exact floor.  '{:.2f}' rounds *)
(* the double correctly, to even on exact ties; for totals below 160 a tie *)
(* occurs only where 100 * index / max is itself a double (totals that are *)
(* multiples of 32), so the hundredths below are the ones printed.  The    *)
(* phase of the last character depends on the rounding error of the        *)
(* quotient; Phase reproduces it bit by bit.                               *)
(***************************************************************************)
MaxTotal == 32

MaxNodes == 3

MaxLines == 4

BarWidth == 32

NumPhases == 9

None == -1

NewBar == [index |-> 0, max |-> None]

Started(b) == b.max # None

\* progress: min(1.0, index / max), 0.0 before start
Progress(b) ==
    IF b.max # None
    THEN IF b.index >= b.max THEN <<1, 1>> ELSE <<b.index, b.max>>
    ELSE <<0, 1>>

\* index / max with max = 0.0
UpdateRaises(b) == b.max = 0

FilledLen(b) == <<BarWidth * Progress(b)[1], Progress(b)[2]>>

NumFillRounded(b) == (2 * FilledLen(b)[1] + FilledLen(b)[2]) \div (2 * FilledLen(b)[2])

\* int(filled_len)
NumFill(b) == FilledLen(b)[1] \div FilledLen(b)[2]

\* Binary long division of i / m for 0 < i < m: <<z, r>> where the leading
\* one bit of the quotient has weight 2^-z and r is the remainder after it.
RECURSIVE Normalize(_, _, _)
Normalize(r, m, z) ==
    IF 2 * r >= m THEN <<z + 1, 2 * r - m>> ELSE Normalize(2 * r, m, z + 1)

\* n further quotient bits: <<remainder, last bit>>
RECURSIVE Mantissa(_, _, _, _)
Mantissa(r, m, n, lsb) ==
    IF n = 0 THEN <<r, lsb>>
    ELSE Mantissa((2 * r) % m, m, n - 1, (2 * r) \div m)

\* Binade of the doubles just below the integer k (1 <= k <= 8)
BinadeBelow(k) == IF k = 1 THEN -1 ELSE IF k = 2 THEN 0 ELSE IF k <= 4 THEN 1 ELSE 2

\* The double index / max carries 53 significant bits, rounded to nearest
\* even. When (filled_len - num_fill) * num_phases is exactly the integer k
\* in the rationals, the float product is k - 288 * e for the error e of the
\* quotient; it stays below k, and int() yields k - 1, when the quotient was
\* rounded down by more than half an ulp of the product.
ProductBelow(i, m, k) ==
    LET nz == Normalize(i, m, 0)
        ml == Mantissa(nz[2], m, 52, 1)
        r == ml[1]
        up == 2 * r > m \/ (2 * r = m /\ ml[2] = 1)
    IN  r # 0 /\ ~up /\ 576 * r > m * 2 ^ (nz[1] + BinadeBelow(k))

\* int((filled_len - num_fill) * num_phases)
Phase(b) ==
    LET scaled == (FilledLen(b)[1] % FilledLen(b)[2]) * NumPhases
        k == scaled \div FilledLen(b)[2]
    IN  IF scaled % FilledLen(b)[2] = 0 /\ k > 0
            /\ ProductBelow(Progress(b)[1], Progress(b)[2], k)
        THEN k - 1 ELSE k

NumEmpty(b) == BarWidth - NumFill(b)

\* len(current): one partial block character when phase > 0
CurrentLen(b) == IF Phase(b) > 0 THEN 1 ELSE 0

EmptyLen(b) ==
    IF NumEmpty(b) - CurrentLen(b) > 0 THEN NumEmpty(b) - CurrentLen(b) ELSE 0

RoundHalfEven(n, d) ==
    LET q == n \div d
        r == n % d
    IN  IF 2 * r < d THEN q
        ELSE IF 2 * r > d THEN q + 1
        ELSE IF q % 2 = 0 THEN q ELSE q + 1

\* '{:.2f}'.format(progress * 100.0), in hundredths of a percent
Percent(b) == RoundHalfEven(100 * 100 * Progress(b)[1], Progress(b)[2])

\* The line update() hands to writeln: 'Progress: |{bar}{current}{empty}| {percent}%'
Render(b) ==
    [fill |-> NumFill(b), current |-> CurrentLen(b), empty |-> EmptyLen(b),
     percent |-> Percent(b)]

\* writeln: '\r\x1b[K' and the line, both with end=''
Writeln(n) == n

FinishIfComplete(b, n) == IF b.max # None /\ b.index >= b.max THEN n + 1 ELSE n

\* finish: print(file=self.file) writes the line terminator
BarFinish(b, n) == n + 1

(***************************************************************************)
(* The chunks the reader loop hands to ProgressTracker                     *)
(***************************************************************************)
NoMatch == -1

\* "(n nodes)"
NodesLine(n) == [nodes |-> n, lead |-> 0]

\* "i: message"
ItemLine(i) == [nodes |-> NoMatch, lead |-> i]

\* anything else, a partial line included
TextLine == [nodes |-> NoMatch, lead |-> 0]

Lines ==
    {NodesLine(n) : n \in 0..MaxNodes} \cup {ItemLine(i) : i \in 1..MaxNodes}
        \cup {TextLine}

\* readline(100).decode('utf-8') yields a str holding at most one line;
\* communicate()[0] yields the undecoded rest, any number of lines.
StrChunk(l) == [lines |-> <<l>>, bytes |-> FALSE]

BytesChunk(ls) == [lines |-> ls, bytes |-> TRUE]

NoChunk == [lines |-> <<>>, bytes |-> FALSE]

\* re.search(r'\((\d+) nodes\)', text): the first match in the text
RECURSIVE FirstMatch(_)
FirstMatch(ls) ==
    IF ls = <<>> THEN NoMatch
    ELSE IF Head(ls).nodes # NoMatch THEN Head(ls).nodes
    ELSE FirstMatch(Tail(ls))

Result(b, e, drew) == [bar |-> b, exc |-> e, drew |-> drew]

\* ProgressBar.start(max_value)
BarStart(b, n) ==
    LET nb == [b EXCEPT !.max = n]
    IN  IF UpdateRaises(nb) THEN Result(nb, "ZeroDivisionError", FALSE)
        ELSE Result(nb, "none", TRUE)

\* ProgressBar.next()
BarNext(b) ==
    LET nb == [b EXCEPT !.index = b.index + 1]
    IN  IF UpdateRaises(nb) THEN Result(nb, "ZeroDivisionError", FALSE)
        ELSE Result(nb, "none", TRUE)

TrackerCallUnguarded(b, chunk) ==
    IF ~chunk.bytes /\ FirstMatch(chunk.lines) # NoMatch
    THEN BarStart(b, FirstMatch(chunk.lines))
    ELSE IF Started(b) THEN BarNext(b) ELSE Result(b, "none", FALSE)

\* ProgressTracker.__call__: only ValueError is caught, and nothing raises it
TrackerCall(b, chunk) ==
    IF ~Started(b)
    THEN IF chunk.bytes
         THEN Result(b, "TypeError", FALSE)
         ELSE IF FirstMatch(chunk.lines) # NoMatch
              THEN BarStart(b, FirstMatch(chunk.lines))
              ELSE Result(b, "none", FALSE)
    ELSE BarNext(b)

(***************************************************************************)
(* The reader loop of __run_docsetutil (non-verbose branch)                *)
(***************************************************************************)
\* One tracker call and what follows it: a drawn line reaches writeln, an
\* exception leaves the with block through __exit__, which calls finish.
Deliver(chunk, leave) ==
    LET r == TrackerCall(bar, chunk)
    IN  /\ bar' = r.bar
        /\ exc' = r.exc
        /\ rendered' = IF r.drew THEN Render(r.bar) ELSE rendered
        /\ last' = chunk
        /\ output' = output \o chunk.lines
        /\ IF leave \/ r.exc # "none"
           THEN /\ newlines' = BarFinish(r.bar, Writeln(newlines))
                /\ tpc' = "finished"
           ELSE /\ newlines' = Writeln(newlines)
                /\ tpc' = "reading"

\* The tool is still running: readline(100) returns the next piece of output
ReadLine(l) ==
    /\ tpc = "reading"
    /\ Len(output) < MaxLines
    /\ Deliver(StrChunk(l), FALSE)
    /\ UNCHANGED pipeVars

Remainders(n) == UNION {[1..k -> Lines] : k \in 1..n}

\* poll() reports the exit while output is still unread: communicate()
\* returns it in one piece, the tracker is called once, the with block ends
Drain ==
    /\ tpc = "reading"
    /\ \E rem \in Remainders(MaxLines - Len(output)) : Deliver(BytesChunk(rem), TRUE)
    /\ UNCHANGED pipeVars

\* poll() reports the exit and nothing is left to read
DrainEmpty ==
    /\ tpc = "reading"
    /\ newlines' = BarFinish(bar, newlines)
    /\ tpc' = "finished"
    /\ UNCHANGED <<bar, rendered, exc, output, last>>
    /\ UNCHANGED pipeVars

\* KeyboardInterrupt inside the with block: __exit__ runs, then the handler
TrackerInterrupt ==
    /\ tpc = "reading"
    /\ newlines' = BarFinish(bar, newlines)
    /\ exc' = "KeyboardInterrupt"
    /\ tpc' = "finished"
    /\ UNCHANGED <<bar, rendered, output, last>>
    /\ UNCHANGED pipeVars

(***************************************************************************)
(* The bar driven directly, as ProgressTracker drives it                   *)
(***************************************************************************)
StartBar(n) ==
    /\ ~Started(bar) /\ exc = "none"
    /\ LET r == BarStart(bar, n)
       IN  /\ bar' = r.bar
           /\ exc' = r.exc
           /\ rendered' = IF r.drew THEN Render(r.bar) ELSE rendered
    /\ newlines' = Writeln(newlines)
    /\ UNCHANGED <<output, last, tpc>>
    /\ UNCHANGED pipeVars

NextBar ==
    /\ Started(bar) /\ exc = "none"
    /\ bar.index <= bar.max
    /\ LET r == BarNext(bar)
       IN  /\ bar' = r.bar
           /\ exc' = r.exc
           /\ rendered' = IF r.drew THEN Render(r.bar) ELSE rendered
    /\ newlines' = Writeln(newlines)
    /\ UNCHANGED <<output, last, tpc>>
    /\ UNCHANGED pipeVars

(***************************************************************************)
(* Specifications                                                          *)
(***************************************************************************)
\* ProgressTracker() constructs the bar, whose __init__ draws it once
TrackerInit ==
    /\ bar = NewBar
    /\ rendered = Render(NewBar)
    /\ newlines = 0
    /\ exc = "none"
    /\ output = <<>>
    /\ last = NoChunk
    /\ tpc = "reading"

\* An empty working directory, nothing invoked yet
PipeInit ==
    /\ pc = "idle"
    /\ args = NoArgs
    /\ fs = EmptyDir
    /\ stale = {}
    /\ patches = 0
    /\ status = 0
    /\ err = "none"
    /\ toolrc = NoTools
    /\ runs = 0
    /\ cleaned = FALSE

Init == PipeInit /\ TrackerInit

Next ==
    \/ \E a \in Args : Start(a)
    \/ FetchCheck
    \/ FetchWrite
    \/ FetchDone
    \/ FetchError
    \/ FetchInterrupt
    \/ ExtractCheck
    \/ ExtractWrite
    \/ ExtractDone
    \/ ExtractError
    \/ ExtractInterrupt
    \/ Configure
    \/ ConfigureError
    \/ HtmlCheck
    \/ DoxygenWrite
    \/ \E rc \in {0} \cup FailCodes : DoxygenExit(rc)
    \/ DoxygenInterrupt
    \/ BundleCheck
    \/ BundleCopyFiles
    \/ BundleCopyError
    \/ BundleCopyTree
    \/ BundleCopyTreeError
    \/ BundleInterrupt
    \/ IndexLaunch
    \/ IndexLaunchError
    \/ IndexWrite
    \/ \E rc \in {0} \cup FailCodes : IndexExit(rc)
    \/ \E rc \in {NotRun, 0} \cup FailCodes : IndexTrackerError(rc)
    \/ IndexInterrupt
    \/ AddIcon
    \/ PatchInfoPlist
    \/ PatchError

Spec == Init /\ [][Next]_vars

NextTracker ==
    \/ \E l \in Lines : ReadLine(l)
    \/ Drain
    \/ DrainEmpty
    \/ TrackerInterrupt

SpecTracker == Init /\ [][NextTracker]_vars

NextBarStep ==
    \/ \E n \in 0..MaxTotal : StartBar(n)
    \/ NextBar

SpecBar == Init /\ [][NextBarStep]_vars

(***************************************************************************)
(* Properties of the pipeline (Spec)                                       *)
(***************************************************************************)
Order ==
    <<"idle", "startup", "fetch", "fetching", "extract", "extracting",
      "configure", "html", "doxygen", "bundle", "bundling", "copytree",
      "index", "indexing", "icon", "patch", "done">>

Rank(p) == CHOOSE i \in 1..Len(Order) : Order[i] = p

Skipped(next) ==
    /\ pc' = next
    /\ UNCHANGED <<fs, stale, patches>>

\* C1: in a run without --clean, each of the seven steps that finds its
\* output in place when it is reached does nothing: control passes to the
\* next step in the fixed order and the working directory is left as it was.
C1_SkipWhenOutputExists ==
    [][(status = Running /\ ~args.clean) =>
          /\ (pc = "fetch" /\ Exists("tarball")) => Skipped("extract")
          /\ (pc = "extract" /\ Exists("src_dir")) => Skipped("configure")
          /\ (pc = "configure" /\ Exists("doxygen_cfg")) => Skipped("html")
          /\ (pc = "html" /\ Exists("html")) =>
                 Skipped(IF args.skip THEN "done" ELSE "bundle")
          /\ (pc = "bundle" /\ Exists("docset")) => Skipped("icon")
          /\ (pc = "index" /\ Exists("index")) => Skipped("icon")
          /\ (pc = "patch" /\ patches > 0) => Skipped("done")]_vars

\* C2: in a run with --clean, once a step that found a stale artifact has
\* started to write its output, nothing written by an earlier invocation is
\* left in the tarball, the source directory, the HTML tree or the docset.
C2_CleanDeletesStale ==
    (args.clean /\ pc \notin {"idle", "startup"}) =>
        /\ Rank(pc) > Rank("fetch") => "tarball" \notin stale
        /\ Rank(pc) > Rank("extract") => "src_dir" \notin stale
        /\ Rank(pc) > Rank("html") => "html" \notin stale
        /\ (Rank(pc) > Rank("bundling") /\ ~args.skip) => stale \cap DocsetPaths = {}

ToolStep(t) == IF t = "doxygen" THEN "doxygen" ELSE "indexing"

\* C3: a non-zero exit code of doxygen or docsetutil, verbose or not, ends the
\* invocation at that step with exit status 1 (no later step runs, the tool
\* is not launched again); exit status 0 means the run reached its end with
\* no exception and no non-zero exit code.
C3_ToolFailureIsFatal ==
    /\ \A t \in DOMAIN toolrc :
           toolrc[t] \notin {NotRun, 0} => (status = 1 /\ pc = ToolStep(t))
    /\ (pc # "idle" /\ status = 0) =>
           /\ pc = "done"
           /\ err = "none"
           /\ \A t \in DOMAIN toolrc : toolrc[t] \in {NotRun, 0}

C3_Witness ==
    /\ status = 1
    /\ err = "CalledProcessError"
    /\ ~args.verbose
    /\ toolrc["docsetutil"] = 2
    /\ pc = "indexing"

\* The artifact a long-running step is producing
Producing(p) ==
    CASE p = "fetching" -> {"tarball"}
      [] p = "extracting" -> {"src_dir"}
      [] p = "doxygen" -> {"html"}
      [] p \in {"bundling", "copytree"} -> DocsetPaths
      [] p = "indexing" -> {"index"}
      [] OTHER -> {}

\* C4: an invocation ended by an operator interrupt during fetch, extract,
\* generate-docs, bundle or index has a non-zero exit status and has left
\* nothing of the artifact that step was producing.
C4_InterruptCleansUp ==
    err = "KeyboardInterrupt" =>
        /\ status \notin {Running, 0}
        /\ \A p \in Producing(pc) : ~Exists(p)

\* The executables a run needs: doxygen and dot always, docsetutil unless
\* --skip-docset-generation
MissingTool(a) == ~a.doxygen \/ ~a.dot \/ (~a.skip /\ ~a.docsetutil)

\* C5: an invocation that lacks a required executable ends at startup with
\* ToolNotFoundError and exit status 1; no step of it runs and it creates or
\* deletes nothing.
C5_MissingToolReportedAtStartup ==
    [][(runs' > 0 /\ MissingTool(args')) =>
          /\ pc' = "startup"
          /\ status' = 1
          /\ err' = "ToolNotFoundError"
          /\ UNCHANGED <<fs, patches>>]_vars

(***************************************************************************)
(* Properties of the tracker (SpecTracker) and of the bar (SpecBar)        *)
(***************************************************************************)
\* C6: no chunk makes the tracker raise, and a chunk that neither starts
\* with an integer nor announces the total leaves index and max unchanged.
C6_IllFormedChunksIgnored ==
    [][Len(output') > Len(output) =>
          /\ exc' = "none"
          /\ (Head(last'.lines).lead = 0 /\ FirstMatch(last'.lines) = NoMatch)
                 => bar' = bar]_vars

\* C7: once max is set it keeps its value for the rest of the tracked run.
C7_TotalNeverChanges == [][Started(bar) => bar'.max = bar.max]_vars

C7_Witness ==
    /\ tpc = "reading"
    /\ Len(output) >= 2
    /\ output[1] = NodesLine(2)
    /\ output[2] = NodesLine(3)
    /\ bar.max = 2

Abs(x) == IF x < 0 THEN -x ELSE x

Canonical(n) == <<NodesLine(n)>> \o [i \in 1..n |-> ItemLine(i)]

\* C9: the printed percent never decreases, and a tracked run that was fed
\* exactly "(n nodes)" and the n item lines, n > 0, ends at 100.00%.
C9_CanonicalRunReaches100 ==
    /\ [][rendered'.percent >= rendered.percent]_vars
    /\ []((tpc = "finished" /\ \E n \in 1..MaxNodes : output = Canonical(n))
              => rendered.percent = 100 * 100)

Complete(b) == Started(b) /\ b.max > 0 /\ b.index >= b.max

\* C10 as stated: a line terminator has been written when and only when
\* index has reached max.
C10_NewlineIffComplete == (newlines > 0) <=> Complete(bar)

\* C10 as amended: no drawing of the bar writes a line terminator, and
\* exactly one is written when the tracked run ends, whether or not index
\* has reached max.
C10_NewlineOnlyAtFinish == newlines = IF tpc = "finished" THEN 1 ELSE 0

C10_Witness ==
    /\ tpc = "finished"
    /\ exc = "none"
    /\ newlines = 1
    /\ Started(bar)
    /\ bar.index < bar.max

(***************************************************************************)
(* Resumption across invocations (Spec)                                    *)
(***************************************************************************)
\* Contents are written as "complete" (or "plain") only by the action that
\* ends a step successfully, so they record that some invocation completed
\* the step; Documents and a complete index do so for bundle and index.
\* C11: while no invocation has used --clean, a step is skipped as "output
\* already exists" only if an earlier invocation completed it: the tarball,
\* the source directory and the HTML tree are whole, and the docset was both
\* bundled and indexed.
C11_SkipOnlyAfterSuccess ==
    [][(status = Running /\ ~cleaned) =>
          /\ (pc = "fetch" /\ pc' = "extract") => fs["tarball"] = "complete"
          /\ (pc = "extract" /\ pc' = "configure") => fs["src_dir"] = "complete"
          /\ (pc = "html" /\ pc' \in {"bundle", "done"}) =>
                 fs["html"] \in {"complete", "plain"}
          /\ (pc = "bundle" /\ pc' = "icon") =>
                 (Exists("documents") /\ fs["index"] = "complete")]_vars

=============================================================================
